---- MODULE Spec2Model ----
(***************************************************************************)
(* Model of the BeautyLanka Stripe backend: the reservations table         *)
(* (sqlite.js) and the request handlers that write it (server.js): the     *)
(* Stripe webhook, create-reservation, get-reservation, the admin          *)
(* listing and update-status, and the two halves of create-checkout        *)
(* (before and after the awaited call to the payment processor).  The      *)
(* saved-card charge, which sends an amount to the processor and writes    *)
(* no reservation, is part of the specification of the payment calls.      *)
(*                                                                         *)
(* Node runs each synchronous handler to completion, so a synchronous      *)
(* handler is one action.  create-checkout awaits the processor, so other  *)
(* handlers run between its two halves.                                    *)
(***************************************************************************)
EXTENDS Integers, Sequences, FiniteSets, TLC

VARIABLES
    rows,       \* the reservations table: rows[i] is the row with id i
    now,        \* the clock behind datetime('now'); no step advances it
    stripeOn,   \* STRIPE_SECRET_KEY is set (stripe # null)
    secretOn,   \* STRIPE_WEBHOOK_SECRET is set
    inflight,   \* handlers suspended on their call to the processor
    lastReq,    \* what the last handler step was asked: [op, id, val, d]
    resp        \* the response that step sent (code 0: none sent yet)

vars == <<rows, now, stripeOn, secretOn, inflight, lastReq, resp>>

(***************************************************************************)
(* Bounds of the model.                                                    *)
(***************************************************************************)
MaxRows == 2
MaxInFlight == 1
\* the last reading of the clock
MaxNow == 2

(***************************************************************************)
(* JavaScript / SQLite values.                                             *)
(***************************************************************************)
\* undefined / null / a column that was never written
NULL == "<null>"
\* a JSON value better-sqlite3 refuses to bind (true, an object, an array)
UNBINDABLE == "<unbindable>"

\* JavaScript truthiness of the values of the model
Truthy(v) == v \notin {NULL, ""}
\* a || b
OrElse(a, b) == IF Truthy(a) THEN a ELSE b
\* better-sqlite3 binds strings, numbers and null only
Bindable(v) == v # UNBINDABLE

\* String(info.lastInsertRowid)
IdString(n) ==
    CASE n = 1 -> "1"
      [] n = 2 -> "2"
      [] n = 3 -> "3"
      [] n = 4 -> "4"
      [] OTHER -> "many"

\* WHERE id = ? : the INTEGER PRIMARY KEY column compared with a bound text;
\* a text that is an integer literal compares as that integer, any other
\* text equals no rowid (0 is never a rowid here)
RowIdOf(v) ==
    CASE v = "1" -> 1
      [] v = "2" -> 2
      [] v = "3" -> 3
      [] v = "4" -> 4
      [] v = "9" -> 9
      [] OTHER -> 0

\* String(v): a text is itself, the JSON value true reads 'true'
StringOf(v) == IF v = UNBINDABLE THEN "true" ELSE v

\* ---- JavaScript numbers and the JSON values read as numbers ---------------
\* the number m / 1000 (prices are carried in thousandths; the prices of the
\* model and their hundredfolds are exact in double arithmetic)
Num(m) == [t |-> "num", m |-> m]
NaN == [t |-> "nan", m |-> 0]
Infinity == [t |-> "inf", m |-> 0]
\* a field the body does not have
Undefined == [t |-> "undefined", m |-> 0]
\* a text that spells the number m / 1000, a text that spells no number
NumText(m) == [t |-> "numtext", m |-> m]
OtherText == [t |-> "text", m |-> 0]

\* truthiness: 0, NaN and undefined are falsy, every non-empty text is truthy
JsTruthy(v) ==
    CASE v.t = "num" -> v.m # 0
      [] v.t \in {"nan", "undefined"} -> FALSE
      [] OTHER -> TRUE

\* Number(v)
Number(v) ==
    CASE v.t \in {"num", "nan", "inf"} -> v
      [] v.t = "numtext" -> Num(v.m)
      [] OTHER -> NaN

\* Math.round(v): the nearest integer, halves towards +Infinity; NaN and
\* Infinity are returned as they are
MathRound(v) == IF v.t = "num" THEN Num(1000 * ((v.m + 500) \div 1000)) ELSE v

\* v * k for a positive integer k
Times(v, k) == IF v.t = "num" THEN Num(v.m * k) ELSE v

\* s.toLowerCase() on the currency codes of the model
ToLowerCase(s) ==
    CASE s = "JPY" -> "jpy"
      [] s = "LKR" -> "lkr"
      [] s = "USD" -> "usd"
      [] OTHER -> s

\* the rows an UPDATE ... WHERE id = ? touches
Matches(rs, id) == {i \in DOMAIN rs : i = RowIdOf(id)}

(***************************************************************************)
(* sqlite.js: class Database                                               *)
(***************************************************************************)
\* the insert taking the id of the last row again (INSERT OR REPLACE under a
\* reused id): the row stored under that id is replaced
createReservationReusesId(rs, obj, t) ==
    LET row == [ salon_id |-> obj.salon_id, item |-> obj.item, price |-> obj.price,
                 contact_name |-> obj.contact_name, status |-> obj.status,
                 stripe_session_id |-> NULL, stripe_payment_intent |-> NULL,
                 created_at |-> t, updated_at |-> t ]
    IN  IF rs = <<>> THEN <<row>> ELSE [rs EXCEPT ![Len(rs)] = row]

\* INSERT INTO reservations (..., status): the session and payment-intent
\* columns are not listed and stay NULL; both timestamps default to now.
\* The row's id is its position: AUTOINCREMENT hands out the next integer.
\* contact_name stands for the columns only the insert writes (salon_name,
\* time_iso, contact_email, contact_phone).
createReservation(rs, obj, t) ==
    Append(rs, [ salon_id |-> obj.salon_id,
                 item |-> obj.item,
                 price |-> obj.price,
                 contact_name |-> obj.contact_name,
                 status |-> obj.status,
                 stripe_session_id |-> NULL,
                 stripe_payment_intent |-> NULL,
                 created_at |-> t,
                 updated_at |-> t ])

\* SELECT * FROM reservations WHERE id = ? : the rows .get(id) finds, one or
\* none (it returns undefined then)
getReservation(rs, id) == {rs[i] : i \in Matches(rs, id)}

\* text LIKE '%q%' on the texts of the model
Like(text, q) ==
    CASE q = "Treat" -> text = "Basic Treatment"
      [] q = "Basic Treatment" -> text = "Basic Treatment"
      [] OTHER -> FALSE

Min(a, b) == IF a <= b THEN a ELSE b

\* the rows a page of the ordered selection can hold: after the first
\* `offset` rows of M in an order by created_at DESC, the next `limit` ones
\* (rows of one timestamp come in an order SQLite does not promise)
Page(rs, M, limit, offset) ==
    {S \in SUBSET M :
        \E B \in SUBSET (M \ S) :
            /\ Cardinality(B) = Min(offset, Cardinality(M))
            /\ Cardinality(S) = Min(limit, Cardinality(M) - Cardinality(B))
            /\ \A b \in B, x \in S : rs[b].created_at >= rs[x].created_at
            /\ \A x \in S \cup B, a \in M \ (S \cup B) : rs[x].created_at >= rs[a].created_at}

\* the selection without its status condition
listReservationsAnyStatus(rs, status, q, limit, offset) ==
    Page(rs, {i \in DOMAIN rs : Truthy(q) => Like(rs[i].item, q)}, limit, offset)

\* SELECT * FROM reservations [WHERE status = ? AND (item LIKE ? OR ...)]
\* ORDER BY created_at DESC LIMIT ? OFFSET ? : the sets of row ids .all() can
\* return (the other columns searched are '' in every row of the model)
listReservations(rs, status, q, limit, offset) ==
    Page(rs, {i \in DOMAIN rs : /\ Truthy(status) => rs[i].status = status
                                /\ Truthy(q) => Like(rs[i].item, q)},
         limit, offset)

\* a relative update in place of the set-status one: writing the status a row
\* already has moves it back to 'pending'
updateReservationStatusToggle(rs, id, status, t) ==
    [i \in DOMAIN rs |->
        IF i \in Matches(rs, id)
        THEN [rs[i] EXCEPT !.status = IF rs[i].status = status THEN "pending" ELSE status,
                           !.updated_at = t]
        ELSE rs[i]]

\* the update with a guard added: ... WHERE id = ? AND status <> 'paid'
updateReservationStatusPaidTerminal(rs, id, status, t) ==
    [i \in DOMAIN rs |->
        IF i \in Matches(rs, id) /\ rs[i].status # "paid"
        THEN [rs[i] EXCEPT !.status = status, !.updated_at = t]
        ELSE rs[i]]

\* an upsert in place of the update: a row is inserted when none matches
updateReservationStatusUpsert(rs, id, status, t) ==
    IF Matches(rs, id) = {}
    THEN Append(rs, [ salon_id |-> "", item |-> "", price |-> 0,
                      contact_name |-> "", status |-> status,
                      stripe_session_id |-> NULL, stripe_payment_intent |-> NULL,
                      created_at |-> t, updated_at |-> t ])
    ELSE [i \in DOMAIN rs |->
            IF i \in Matches(rs, id)
            THEN [rs[i] EXCEPT !.status = status, !.updated_at = t]
            ELSE rs[i]]

\* the update without its WHERE clause: every row is written
updateReservationStatusAll(rs, id, status, t) ==
    [i \in DOMAIN rs |-> [rs[i] EXCEPT !.status = status, !.updated_at = t]]

\* UPDATE reservations SET status = ?, updated_at = datetime('now') WHERE id = ?
updateReservationStatus(rs, id, status, t) ==
    [i \in DOMAIN rs |->
        IF i \in Matches(rs, id)
        THEN [rs[i] EXCEPT !.status = status, !.updated_at = t]
        ELSE rs[i]]

\* the update also moving the row to 'pending_online'
attachStripeSessionSetsStatus(rs, id, session_id, t) ==
    [i \in DOMAIN rs |->
        IF i \in Matches(rs, id)
        THEN [rs[i] EXCEPT !.stripe_session_id = session_id, !.status = "pending_online",
                           !.updated_at = t]
        ELSE rs[i]]

\* the update keeping a session id that is already there:
\* ... WHERE id = ? AND stripe_session_id IS NULL
attachStripeSessionKeepFirst(rs, id, session_id, t) ==
    [i \in DOMAIN rs |->
        IF i \in Matches(rs, id) /\ rs[i].stripe_session_id = NULL
        THEN [rs[i] EXCEPT !.stripe_session_id = session_id, !.updated_at = t]
        ELSE rs[i]]

\* an upsert in place of the update: a row is inserted for an id not stored
attachStripeSessionUpsert(rs, id, session_id, t) ==
    IF Matches(rs, id) = {}
    THEN Append(rs, [ salon_id |-> "", item |-> "", price |-> 0,
                      contact_name |-> "", status |-> "pending",
                      stripe_session_id |-> session_id, stripe_payment_intent |-> NULL,
                      created_at |-> t, updated_at |-> t ])
    ELSE [i \in DOMAIN rs |->
            IF i \in Matches(rs, id)
            THEN [rs[i] EXCEPT !.stripe_session_id = session_id, !.updated_at = t]
            ELSE rs[i]]

\* UPDATE reservations SET stripe_session_id = ?, updated_at = ... WHERE id = ?
attachStripeSession(rs, id, session_id, t) ==
    [i \in DOMAIN rs |->
        IF i \in Matches(rs, id)
        THEN [rs[i] EXCEPT !.stripe_session_id = session_id, !.updated_at = t]
        ELSE rs[i]]

\* the update also stamping the creation time
attachPaymentIntentTouchesCreated(rs, id, pi, t) ==
    [i \in DOMAIN rs |->
        IF i \in Matches(rs, id)
        THEN [rs[i] EXCEPT !.stripe_payment_intent = pi, !.updated_at = t, !.created_at = t]
        ELSE rs[i]]

\* UPDATE reservations SET stripe_payment_intent = ?, updated_at = ... WHERE id = ?
attachPaymentIntent(rs, id, pi, t) ==
    [i \in DOMAIN rs |->
        IF i \in Matches(rs, id)
        THEN [rs[i] EXCEPT !.stripe_payment_intent = pi, !.updated_at = t]
        ELSE rs[i]]

\* info.changes > 0
Changed(rs, id) == Matches(rs, id) # {}

(***************************************************************************)
(* Requests and responses.                                                 *)
(***************************************************************************)
\* a response: the HTTP status, what the body says, and the rows it carries
Resp(code, body) == [code |-> code, body |-> body, data |-> {}]

NoResp == Resp(0, NULL)

\* ---- Stripe events (the JSON.parse of a webhook body) -------------------
COMPLETED == "checkout.session.completed"

\* shape "ok": event.data.object is an object; "nodata": event.data is absent;
\* "notjson": the body is no JSON at all
Event(type, shape, cref, meta, pi) ==
    [type |-> type, shape |-> shape, cref |-> cref, meta |-> meta, pi |-> pi]

\* a body that is no JSON
GARBAGE == Event(NULL, "notjson", NULL, NULL, NULL)

\* 'checkout.session.completed' events: for reservation 1 with every kind of
\* payment_intent, and with a second id in the metadata; for reservation 2
\* by either correlation field; for no reservation (no field, an id that is
\* not stored, a client_reference_id that is no text)
CompletedEvents ==
    {Event(COMPLETED, "ok", "1", NULL, p) : p \in {NULL, "pi_A", "pi_B", UNBINDABLE}}
    \cup { Event(COMPLETED, "ok", "1", "2", "pi_A"),
           Event(COMPLETED, "ok", NULL, "2", "pi_B"),
           Event(COMPLETED, "ok", "", "2", "pi_B"),
           Event(COMPLETED, "ok", "2", NULL, "pi_B"),
           Event(COMPLETED, "ok", NULL, NULL, "pi_A"),
           Event(COMPLETED, "ok", "9", NULL, "pi_A"),
           Event(COMPLETED, "ok", UNBINDABLE, NULL, "pi_A") }

LoggedTypes ==
    {"setup_intent.succeeded", "payment_intent.succeeded", "payment_intent.payment_failed"}

OtherEvents ==
    {Event(ty, "ok", NULL, NULL, NULL) : ty \in LoggedTypes \cup {"charge.refunded", NULL}}

MalformedEvents ==
    {Event(ty, "nodata", NULL, NULL, NULL) : ty \in {COMPLETED, "payment_intent.payment_failed", "charge.refunded"}}

Bodies == CompletedEvents \cup OtherEvents \cup MalformedEvents \cup {GARBAGE}

\* ---- Stripe signatures ---------------------------------------------------
\* the header Stripe computes: a MAC under a key over the raw body, with a
\* timestamp that is inside the tolerance window or not
Sign(key, over, fresh) == [key |-> key, over |-> over, fresh |-> fresh]

\* process.env.STRIPE_WEBHOOK_SECRET, when set
WebhookSecret == "whsec_live"

\* no stripe-signature header
NoSig == [key |-> NULL, over |-> GARBAGE, fresh |-> FALSE]

\* the event an attacker holds a genuine header for
GenuineEvent == Event(COMPLETED, "ok", "1", NULL, "pi_A")

\* bodies sent under the genuine event's header
ForgedBodies ==
    { Event(COMPLETED, "ok", "2", NULL, "pi_B"),
      Event(COMPLETED, "ok", "1", NULL, NULL) }

\* deliveries whose header does not verify: a tampered body under an
\* unmodified header, a foreign key, an expired timestamp, no header
BadDeliveries ==
    {[body |-> b, sig |-> Sign(WebhookSecret, GenuineEvent, TRUE), fault |-> "none"] : b \in ForgedBodies}
    \cup {[body |-> GenuineEvent, sig |-> s, fault |-> "none"] :
            s \in {NoSig, Sign("whsec_other", GenuineEvent, TRUE), Sign(WebhookSecret, GenuineEvent, FALSE)}}

\* a delivery under the header Stripe computes for its body
SignedDelivery(b) == [body |-> b, sig |-> Sign(WebhookSecret, b, TRUE), fault |-> "none"]

\* which store write of the delivery fails for a reason outside the request
\* (SQLITE_BUSY, an I/O error): none, the status write, the payment-intent write
Faults == {"none", "status", "pi"}

FaultyDeliveries ==
    {[body |-> GenuineEvent, sig |-> Sign(WebhookSecret, GenuineEvent, TRUE), fault |-> f] :
        f \in Faults \ {"none"}}

Deliveries ==
    {SignedDelivery(b) : b \in Bodies} \cup BadDeliveries \cup FaultyDeliveries

\* lastReq keeps of a request the operation, the reservation id it names and
\* the value it carries for that reservation; of a webhook request also the
\* whole delivery
NoDelivery == [body |-> GARBAGE, sig |-> NoSig, fault |-> "none"]

Req(op, id, val) == [op |-> op, id |-> id, val |-> val, d |-> NoDelivery]

NoReq == Req("none", NULL, NULL)

(***************************************************************************)
(* server.js: POST /webhook/stripe                                         *)
(***************************************************************************)
\* a verification of the header's key alone, not of the body it was computed over
ConstructEventThrowsKeyOnly(body, sig) ==
    \/ sig = NoSig
    \/ sig.key # WebhookSecret
    \/ body.shape = "notjson"

\* stripe.webhooks.constructEvent: verify the header against the raw body,
\* then JSON.parse the body; throws when either fails
ConstructEventThrows(body, sig) ==
    \/ sig = NoSig
    \/ sig.key # WebhookSecret
    \/ sig.over # body
    \/ ~sig.fresh
    \/ body.shape = "notjson"

\* the resolution falling back to the first reservation when the event names none
ReservationIdOfDefaultFirst(ev) ==
    IF Truthy(OrElse(ev.cref, ev.meta)) THEN OrElse(ev.cref, ev.meta) ELSE "1"

\* the resolution with the two fields in the other order
ReservationIdOfMetadataFirst(ev) == OrElse(ev.meta, ev.cref)

\* session.client_reference_id || (session.metadata && session.metadata.reservation_id)
ReservationIdOf(ev) == OrElse(ev.cref, ev.meta)

\* the try block following a transition table: only a reservation awaiting
\* payment is moved to 'paid'
ApplyCompletedFromPendingOnly(rs, ev, fault, t) ==
    LET rid == ReservationIdOf(ev)
        pi == OrElse(ev.pi, "")
        rs1 == updateReservationStatus(rs, rid, "paid", t)
    IN  IF ~Truthy(rid) THEN rs
        ELSE IF ~Bindable(rid) \/ fault = "status" THEN rs
        ELSE IF \E i \in Matches(rs, rid) : rs[i].status \notin {"pending", "pending_online"} THEN rs
        ELSE IF ~Bindable(pi) \/ fault = "pi" THEN rs1
        ELSE attachPaymentIntent(rs1, rid, pi, t)

\* the try block following the state machine of the specification: only a
\* reservation in 'pending_online' is moved to 'paid'
ApplyCompletedFromPendingOnlineOnly(rs, ev, fault, t) ==
    LET rid == ReservationIdOf(ev)
        pi == OrElse(ev.pi, "")
        rs1 == updateReservationStatus(rs, rid, "paid", t)
    IN  IF ~Truthy(rid) THEN rs
        ELSE IF ~Bindable(rid) \/ fault = "status" THEN rs
        ELSE IF \E i \in Matches(rs, rid) : rs[i].status # "pending_online" THEN rs
        ELSE IF ~Bindable(pi) \/ fault = "pi" THEN rs1
        ELSE attachPaymentIntent(rs1, rid, pi, t)

\* the try block of the 'checkout.session.completed' case: two statements,
\* the second is not reached when the first throws; the catch only logs
ApplyCompleted(rs, ev, fault, t) ==
    LET rid == ReservationIdOf(ev)
        pi == OrElse(ev.pi, "")
        rs1 == updateReservationStatus(rs, rid, "paid", t)
    IN  IF ~Truthy(rid) THEN rs
        ELSE IF ~Bindable(rid) \/ fault = "status" THEN rs
        ELSE IF ~Bindable(pi) \/ fault = "pi" THEN rs1
        ELSE attachPaymentIntent(rs1, rid, pi, t)

\* the handler that does not parse the body when no secret is configured:
\* the event is the raw Buffer, its type is undefined and nothing is applied
HandleWebhookUnparsed(rs, d, t, son, sec) ==
    IF ~son THEN [rows |-> rs, code |-> 500, body |-> "Stripe not configured"]
    ELSE IF sec /\ ConstructEventThrows(d.body, d.sig)
        THEN [rows |-> rs, code |-> 400, body |-> "Webhook Error"]
    ELSE IF ~sec \/ d.body.shape = "notjson"
        THEN [rows |-> rs, code |-> 200, body |-> "received"]
    ELSE IF d.body.type \in LoggedTypes \cup {COMPLETED} /\ d.body.shape = "nodata"
        THEN [rows |-> rs, code |-> 500, body |-> "TypeError"]
    ELSE IF d.body.type = COMPLETED
        THEN [rows |-> ApplyCompleted(rs, d.body, d.fault, t), code |-> 200, body |-> "received"]
    ELSE [rows |-> rs, code |-> 200, body |-> "received"]

\* the handler without the try / catch around its store writes: a write that
\* throws leaves the handler and Express answers 500
HandleWebhookNoCatch(rs, d, t, son, sec) ==
    IF ~son THEN [rows |-> rs, code |-> 500, body |-> "Stripe not configured"]
    ELSE IF sec /\ ConstructEventThrows(d.body, d.sig)
        THEN [rows |-> rs, code |-> 400, body |-> "Webhook Error"]
    ELSE IF d.body.shape = "notjson"
        THEN [rows |-> rs, code |-> 200, body |-> "received"]
    ELSE IF d.body.type \in LoggedTypes \cup {COMPLETED} /\ d.body.shape = "nodata"
        THEN [rows |-> rs, code |-> 500, body |-> "TypeError"]
    ELSE IF d.body.type = COMPLETED
        THEN [rows |-> ApplyCompleted(rs, d.body, d.fault, t),
              code |-> IF /\ Truthy(ReservationIdOf(d.body))
                          /\ \/ d.fault # "none"
                             \/ ~Bindable(ReservationIdOf(d.body))
                             \/ ~Bindable(d.body.pi)
                       THEN 500 ELSE 200,
              body |-> "received"]
    ELSE [rows |-> rs, code |-> 200, body |-> "received"]

\* the whole handler: the table it leaves and the response it sends
HandleWebhook(rs, d, t, son, sec) ==
    IF ~son THEN [rows |-> rs, code |-> 500, body |-> "Stripe not configured"]
    ELSE IF sec /\ ConstructEventThrows(d.body, d.sig)
        THEN [rows |-> rs, code |-> 400, body |-> "Webhook Error"]
    ELSE IF d.body.shape = "notjson"
        \* JSON.parse failed and was swallowed: event is the Buffer, its type undefined
        THEN [rows |-> rs, code |-> 200, body |-> "received"]
    ELSE IF d.body.type \in LoggedTypes \cup {COMPLETED} /\ d.body.shape = "nodata"
        \* event.data.object on an undefined data: a TypeError outside any try
        THEN [rows |-> rs, code |-> 500, body |-> "TypeError"]
    ELSE IF d.body.type = COMPLETED
        THEN [rows |-> ApplyCompleted(rs, d.body, d.fault, t), code |-> 200, body |-> "received"]
    ELSE [rows |-> rs, code |-> 200, body |-> "received"]

\* what lastReq keeps of a delivery: the event type, the reservation id the
\* event names, its payment_intent, and the delivery itself
DeliveryReq(d) ==
    IF d.body.type = COMPLETED /\ d.body.shape = "ok"
    THEN [Req(COMPLETED, ReservationIdOf(d.body), d.body.pi) EXCEPT !.d = d]
    ELSE [Req("webhook", NULL, NULL) EXCEPT !.d = d]

Webhook(d) ==
    LET out == HandleWebhook(rows, d, now, stripeOn, secretOn)
    IN  /\ rows' = out.rows
        /\ resp' = Resp(out.code, out.body)
        /\ lastReq' = DeliveryReq(d)
        /\ UNCHANGED <<now, stripeOn, secretOn, inflight>>

(***************************************************************************)
(* server.js: POST /api/reservations                                       *)
(***************************************************************************)
CreateBody(salonId, item, price, status) ==
    [salonId |-> salonId, item |-> item, price |-> price, status |-> status,
     contact_name |-> NULL]

\* the body with contact: {name}
WithContact(body, name) == [body EXCEPT !.contact_name = name]

\* a body without a price reads as price 0 (Number(price || 0)); a status is
\* absent or any text the caller likes
CreateRequests ==
    { CreateBody("salon01", "Basic Treatment", 5000, NULL),
      CreateBody("salon01", "Basic Treatment", 5000, "bogus"),
      CreateBody(NULL, "Basic Treatment", 5000, NULL),
      CreateBody("salon01", NULL, 0, NULL) }

\* the destructuring default: status = 'pending' when the body has none
StatusOrDefault(st) == IF st = NULL THEN "pending" ELSE st

HandleCreate(rs, r, t) ==
    IF ~Truthy(r.salonId) \/ ~Truthy(r.item)
    THEN [rows |-> rs, code |-> 400, body |-> "Missing required fields"]
    ELSE LET rs1 == createReservation(rs, [salon_id |-> r.salonId, item |-> r.item,
                                           price |-> r.price,
                                           contact_name |-> OrElse(r.contact_name, ""),
                                           status |-> StatusOrDefault(r.status)], t)
         IN  [rows |-> rs1, code |-> 200, body |-> IdString(Len(rs1))]

Create(r) ==
    LET out == HandleCreate(rows, r, now)
    IN  /\ Len(out.rows) <= MaxRows
        /\ rows' = out.rows
        /\ resp' = Resp(out.code, out.body)
        /\ lastReq' = Req("create", NULL, r.status)
        /\ UNCHANGED <<now, stripeOn, secretOn, inflight>>

(***************************************************************************)
(* server.js: GET /api/reservations/:id                                    *)
(***************************************************************************)
IdParams == {"1", "9"}

Get(id) ==
    /\ resp' = IF getReservation(rows, id) = {}
               THEN Resp(404, "Not found")
               ELSE [code |-> 200, body |-> "row", data |-> getReservation(rows, id)]
    /\ lastReq' = Req("get", id, NULL)
    /\ UNCHANGED <<rows, now, stripeOn, secretOn, inflight>>

(***************************************************************************)
(* server.js: requireAdmin and PATCH /api/reservations/:id                 *)
(***************************************************************************)
\* header texts are sequences of characters
Bearer == <<"B", "e", "a", "r", "e", "r", " ">>

\* process.env.ADMIN_TOKEN
ADMIN_TOKEN == <<"t", "0", "k">>

\* s.startsWith(p)
StartsWith(s, p) == Len(s) >= Len(p) /\ SubSeq(s, 1, Len(p)) = p
\* s.slice(n)
Slice(s, n) == SubSeq(s, n + 1, Len(s))

GoodAuth == Bearer \o ADMIN_TOKEN

\* no header (''), another scheme, a wrong token, a token that the admin
\* token is a prefix of
BadAuths ==
    { <<>>,
      <<"B", "a", "s", "i", "c", " ", "t", "0", "k">>,
      Bearer \o <<"b", "a", "d">>,
      Bearer \o ADMIN_TOKEN \o <<"x">> }

\* the token compared by prefix: any token the admin token starts is accepted
requireAdminTokenPrefix(auth) ==
    IF ~StartsWith(auth, Bearer) THEN 401
    ELSE IF ~StartsWith(Slice(auth, 7), ADMIN_TOKEN) THEN 403
    ELSE 0

\* 0 when the middleware calls next(), else the status it answers with
requireAdmin(auth) ==
    IF ~StartsWith(auth, Bearer) THEN 401
    ELSE IF Slice(auth, 7) # ADMIN_TOKEN THEN 403
    ELSE 0

PatchReq(id, status, auth) == [id |-> id, status |-> status, auth |-> auth]

\* the admin's updates of reservation 1: no status, the admin UI's buttons,
\* a JSON value that cannot be bound; of reservation 2 and of a reservation
\* that is not stored; and updates without the admin's token
PatchRequests ==
    {PatchReq("1", st, GoodAuth) : st \in {NULL, "paid", "reserved", UNBINDABLE}}
    \cup {PatchReq("2", "reserved", GoodAuth), PatchReq("9", "paid", GoodAuth)}
    \cup {PatchReq("1", "reserved", a) : a \in BadAuths}

HandlePatch(rs, r, t) ==
    IF requireAdmin(r.auth) = 401 THEN [rows |-> rs, code |-> 401, body |-> "No token"]
    ELSE IF requireAdmin(r.auth) = 403 THEN [rows |-> rs, code |-> 403, body |-> "Forbidden"]
    ELSE IF ~Truthy(r.status) THEN [rows |-> rs, code |-> 400, body |-> "status required"]
    \* the statement throws on a value it cannot bind; Express answers 500
    ELSE IF ~Bindable(r.status) THEN [rows |-> rs, code |-> 500, body |-> "TypeError"]
    ELSE IF ~Changed(rs, r.id) THEN [rows |-> rs, code |-> 404, body |-> "Not found"]
    ELSE [rows |-> updateReservationStatus(rs, r.id, r.status, t), code |-> 200, body |-> "ok"]

Patch(r) ==
    LET out == HandlePatch(rows, r, now)
    IN  /\ rows' = out.rows
        /\ resp' = Resp(out.code, out.body)
        /\ lastReq' = Req("patch", r.id, r.status)
        /\ UNCHANGED <<now, stripeOn, secretOn, inflight>>

(***************************************************************************)
(* server.js: GET /api/reservations                                        *)
(***************************************************************************)
ListReq(status, q, limit, offset, auth) ==
    [status |-> status, q |-> q, limit |-> limit, offset |-> offset, auth |-> auth]

\* the admin's listings: all rows, by status, with a search text, a page of
\* one row, a page after the first row; and listings without the admin's token
ListRequests ==
    {ListReq(st, NULL, 200, 0, GoodAuth) : st \in {NULL, "paid", "pending"}}
    \cup { ListReq("paid", "zzz", 200, 0, GoodAuth),
           ListReq(NULL, "Treat", 1, 0, GoodAuth),
           ListReq("pending", NULL, 200, 1, GoodAuth) }
    \cup {ListReq("paid", NULL, 200, 0, a) : a \in BadAuths}

List(r) ==
    /\ IF requireAdmin(r.auth) = 401 THEN resp' = Resp(401, "No token")
       ELSE IF requireAdmin(r.auth) = 403 THEN resp' = Resp(403, "Forbidden")
       ELSE \E S \in listReservations(rows, r.status, r.q, r.limit, r.offset) :
                resp' = [code |-> 200, body |-> "rows", data |-> {rows[i] : i \in S}]
    /\ lastReq' = Req("list", NULL, r.status)
    /\ UNCHANGED <<rows, now, stripeOn, secretOn, inflight>>

(***************************************************************************)
(* server.js: POST /api/create-checkout                                    *)
(***************************************************************************)
CheckoutReq(reservationId, item, price, currency) ==
    [reservationId |-> reservationId, item |-> item, price |-> price, currency |-> currency]

\* checkouts of the stored reservation 1, of a reservation that is not
\* stored, and with a field missing; price 15.00 in the default currency
CheckoutRequests ==
    { CheckoutReq("1", "Basic Treatment", Num(15000), NULL),
      CheckoutReq("9", "Basic Treatment", Num(15000), NULL),
      CheckoutReq(NULL, "Basic Treatment", Num(15000), NULL),
      CheckoutReq("1", NULL, Num(15000), NULL) }

\* the session ids the processor hands out
SessionIds == {"cs_1", "cs_2"}

\* the check for both fields dropped: only the reservation id is required
MissingFieldIdOnly(r) == ~Truthy(r.reservationId)

\* !reservationId || !item
MissingField(r) == ~Truthy(r.reservationId) \/ ~Truthy(r.item)

\* the destructuring default: currency = 'usd' when the body has none
CurrencyOrDefault(c) == IF c = NULL THEN "usd" ELSE c

\* nPrice = Number(price || 0); Math.round(nPrice) for 'jpy' in any letter
\* case, Math.round(nPrice * 100) for every other currency
unit_amount(price, currency) ==
    LET nPrice == Number(IF JsTruthy(price) THEN price ELSE Num(0))
    IN  IF ToLowerCase(currency) = "jpy"
        THEN MathRound(nPrice)
        ELSE MathRound(Times(nPrice, 100))

\* a call to the processor: what is charged, and the reservation it names
Call(api, currency, amount, cref, meta) ==
    [api |-> api, currency |-> currency, amount |-> amount,
     client_reference_id |-> cref, reservation_id |-> meta]

\* the session created without its metadata map
SessionCallNoMetadata(r) ==
    Call("checkout.sessions.create", CurrencyOrDefault(r.currency),
         unit_amount(r.price, CurrencyOrDefault(r.currency)),
         StringOf(r.reservationId), NULL)

\* the argument of stripe.checkout.sessions.create
SessionCall(r) ==
    Call("checkout.sessions.create", CurrencyOrDefault(r.currency),
         unit_amount(r.price, CurrencyOrDefault(r.currency)),
         StringOf(r.reservationId), StringOf(r.reservationId))

\* a handler suspended on its call to the processor: the call, and what the
\* handler keeps of its request (the id it will write to, the price it read)
Suspended(op, id, price, call) == [op |-> op, id |-> id, price |-> price, call |-> call]

SuspendedCheckout(r) == Suspended("checkout", r.reservationId, r.price, SessionCall(r))

\* up to the await: the checks, then the call to the processor is issued and
\* the handler is suspended
CheckoutBegin(r) ==
    /\ lastReq' = Req("checkout", r.reservationId, r.item)
    /\ IF ~stripeOn
       THEN resp' = Resp(500, "Stripe not configured") /\ inflight' = inflight
       ELSE IF MissingField(r)
       THEN resp' = Resp(400, "reservationId and item required") /\ inflight' = inflight
       ELSE /\ Cardinality(inflight) < MaxInFlight
            /\ inflight' = inflight \cup {SuspendedCheckout(r)}
            /\ resp' = NoResp
    /\ UNCHANGED <<rows, now, stripeOn, secretOn>>

\* after the await, the processor returned a session: persist its id, answer
\* with the redirect URL; a reservationId the statement cannot bind makes it
\* throw, and the catch answers 500
CheckoutResume(r, sid) ==
    /\ SuspendedCheckout(r) \in inflight
    /\ inflight' = inflight \ {SuspendedCheckout(r)}
    /\ IF Bindable(r.reservationId)
       THEN /\ rows' = attachStripeSession(rows, r.reservationId, sid, now)
            /\ resp' = Resp(200, "url")
       ELSE /\ rows' = rows
            /\ resp' = Resp(500, "Failed to create checkout")
    /\ lastReq' = Req("checkout_resume", r.reservationId, sid)
    /\ UNCHANGED <<now, stripeOn, secretOn>>

\* the catch taken for a failed call still persisting a session id
CheckoutFailPersists(r) ==
    /\ SuspendedCheckout(r) \in inflight
    /\ inflight' = inflight \ {SuspendedCheckout(r)}
    /\ rows' = attachStripeSession(rows, r.reservationId, "cs_1", now)
    /\ resp' = Resp(500, "Failed to create checkout")
    /\ lastReq' = Req("checkout_fail", r.reservationId, NULL)
    /\ UNCHANGED <<now, stripeOn, secretOn>>

\* after the await, the processor call rejected: the catch answers 500
CheckoutFail(r) ==
    /\ SuspendedCheckout(r) \in inflight
    /\ inflight' = inflight \ {SuspendedCheckout(r)}
    /\ resp' = Resp(500, "Failed to create checkout")
    /\ lastReq' = Req("checkout_fail", r.reservationId, NULL)
    /\ UNCHANGED <<rows, now, stripeOn, secretOn>>

(***************************************************************************)
(* server.js: POST /api/charge                                             *)
(***************************************************************************)
ChargeReq(salonId, bookingId, amountLKR) ==
    [salonId |-> salonId, bookingId |-> bookingId, amountLKR |-> amountLKR]

\* BOOKING_TO_STRIPE: the bookings with a saved card
SavedCards == {"BOOK_001"}

\* amount = Math.round(Number(amountLKR))
ChargeAmount(amountLKR) == MathRound(Number(amountLKR))

\* the argument of stripe.paymentIntents.create
ChargeCall(r) == Call("paymentIntents.create", "lkr", ChargeAmount(r.amountLKR), NULL, NULL)

SuspendedCharge(r) == Suspended("charge", r.bookingId, r.amountLKR, ChargeCall(r))

\* up to the await
ChargeBegin(r) ==
    /\ lastReq' = Req("charge", r.bookingId, NULL)
    /\ IF ~stripeOn
       THEN resp' = Resp(500, "Stripe not configured") /\ inflight' = inflight
       ELSE IF ~Truthy(r.salonId) \/ ~Truthy(r.bookingId) \/ ~JsTruthy(r.amountLKR)
       THEN resp' = Resp(400, "missing fields") /\ inflight' = inflight
       ELSE IF r.bookingId \notin SavedCards
       THEN resp' = Resp(400, "customer has no saved card") /\ inflight' = inflight
       ELSE /\ Cardinality(inflight) < MaxInFlight
            /\ inflight' = inflight \cup {SuspendedCharge(r)}
            /\ resp' = NoResp
    /\ UNCHANGED <<rows, now, stripeOn, secretOn>>

\* after the await: the payment intent was created, or the call rejected and
\* the catch answers 400
ChargeEnd(r, ok) ==
    /\ SuspendedCharge(r) \in inflight
    /\ inflight' = inflight \ {SuspendedCharge(r)}
    /\ resp' = IF ok THEN Resp(200, "paymentIntentId") ELSE Resp(400, "charge error")
    /\ lastReq' = Req("charge_end", r.bookingId, NULL)
    /\ UNCHANGED <<rows, now, stripeOn, secretOn>>

(***************************************************************************)
(* The system.                                                             *)
(***************************************************************************)
Init ==
    /\ rows = <<>>
    /\ now = 0
    /\ stripeOn \in BOOLEAN
    /\ secretOn \in BOOLEAN
    /\ inflight = {}
    /\ lastReq = NoReq
    /\ resp = NoResp

Next ==
    \/ \E d \in Deliveries : Webhook(d)
    \/ \E r \in CreateRequests : Create(r)
    \/ \E id \in IdParams : Get(id)
    \/ \E r \in PatchRequests : Patch(r)
    \/ \E r \in CheckoutRequests : CheckoutBegin(r)
    \/ \E r \in CheckoutRequests, sid \in SessionIds : CheckoutResume(r, sid)
    \/ \E r \in CheckoutRequests : CheckoutFail(r)
    \/ \E r \in ListRequests : List(r)

Spec == Init /\ [][Next]_vars

(***************************************************************************)
(* The payment calls: the same handlers under requests that vary the price *)
(* and the currency, with the saved-card charge.                           *)
(***************************************************************************)
\* prices 1500, 1500.5, 15.00, 0.125, 5000, -5, a text that is no number,
\* 1e999, no price, the text '15'
PricedCheckouts ==
    {CheckoutReq("1", "Basic Treatment", pc[1], pc[2]) :
        pc \in { <<Num(1500000), "jpy">>, <<Num(1500500), "JPY">>,
                 <<Num(15000), "usd">>, <<Num(125), NULL>>,
                 <<Num(5000000), "lkr">>, <<Num(5000000), "LKR">>,
                 <<Num(0 - 5000), "usd">>, <<OtherText, "usd">>, <<Infinity, "usd">>,
                 <<Undefined, "usd">>, <<NumText(15000), "usd">> }}
    \cup {CheckoutReq(UNBINDABLE, "Basic Treatment", Num(15000), NULL)}

PayCheckouts == PricedCheckouts \cup CheckoutRequests

Charges ==
    {ChargeReq("salon01", "BOOK_001", a) :
        a \in {Num(5000000), NumText(5000000), Num(5000500), Num(0), OtherText}}
    \cup {ChargeReq("salon01", "BOOK_999", Num(5000000)), ChargeReq(NULL, "BOOK_001", Num(5000000))}

PayNext ==
    \/ Create(CreateBody("salon01", "Basic Treatment", 5000, NULL))
    \/ \E r \in PayCheckouts : CheckoutBegin(r)
    \/ \E r \in PayCheckouts, sid \in SessionIds : CheckoutResume(r, sid)
    \/ \E r \in PayCheckouts : CheckoutFail(r)
    \/ \E r \in Charges : ChargeBegin(r)
    \/ \E r \in Charges, ok \in BOOLEAN : ChargeEnd(r, ok)

PaySpec == Init /\ [][PayNext]_vars

(***************************************************************************)
(* The payment flow under a running clock: one reservation body, its       *)
(* checkout, the events of its session, and time passing between the       *)
(* requests, so that datetime('now') differs from write to write.          *)
(***************************************************************************)
\* time passes between two requests
Tick ==
    /\ now < MaxNow
    /\ now' = now + 1
    /\ UNCHANGED <<rows, stripeOn, secretOn, inflight, lastReq, resp>>

\* the reservation of the end-to-end scenario, with a contact
FlowCreate == WithContact(CreateBody("salon01", "Basic Treatment", 5000, NULL), "Nimal")

\* its checkout: price 5000 in 'lkr'
FlowCheckout == CheckoutReq("1", "Basic Treatment", Num(5000000), "lkr")

\* the completed events of sessions of reservations 1 and 2, carrying the id
\* in both fields, with and without a payment intent; an unsigned delivery;
\* an event of another type
FlowDeliveries ==
    {SignedDelivery(Event(COMPLETED, "ok", "1", "1", p)) : p \in {"pi_A", NULL}}
    \cup { SignedDelivery(Event(COMPLETED, "ok", "2", "2", "pi_B")),
           [body |-> GenuineEvent, sig |-> NoSig, fault |-> "none"],
           SignedDelivery(Event("payment_intent.succeeded", "ok", NULL, NULL, NULL)) }

FlowNext ==
    \/ Tick
    \/ Create(FlowCreate)
    \/ CheckoutBegin(FlowCheckout)
    \/ \E sid \in SessionIds : CheckoutResume(FlowCheckout, sid)
    \/ CheckoutFail(FlowCheckout)
    \/ \E d \in FlowDeliveries : Webhook(d)
    \/ Get("1")

FlowSpec == Init /\ [][FlowNext]_vars

(***************************************************************************)
(* Vocabulary of the claims.                                               *)
(***************************************************************************)
\* the delivery reaches the switch: the processor is configured and the
\* header verifies or verification is off
Trusted(d) ==
    /\ stripeOn
    /\ secretOn => (d.sig = Sign(WebhookSecret, d.body, TRUE) /\ d.body.shape # "notjson")

\* the step into the next state served the webhook delivery lastReq'.d
WebhookStep == lastReq'.op \in {COMPLETED, "webhook"}

\* the header is not the one Stripe computes over this very body, in time
BadSignature(d) == d.sig # Sign(WebhookSecret, d.body, TRUE)

\* a well-formed 'checkout.session.completed' event
IsCompleted(d) == d.body.type = COMPLETED /\ d.body.shape = "ok"

\* the rows of the table rs the event of d correlates to
Targets(rs, d) ==
    IF IsCompleted(d) /\ Truthy(ReservationIdOf(d.body)) /\ Bindable(ReservationIdOf(d.body))
    THEN {i \in DOMAIN rs : IdString(i) = ReservationIdOf(d.body)}
    ELSE {}

\* a row without its last-update timestamp
Content(row) == [row EXCEPT !.updated_at = 0]
SameContent(rs1, rs2) ==
    /\ Len(rs1) = Len(rs2)
    /\ \A i \in DOMAIN rs1 : Content(rs1[i]) = Content(rs2[i])

\* the states of the state machine of the specification
StatusDomain == {"pending", "pending_online", "paid", "reserved", "failed", "canceled"}

(***************************************************************************)
(* C1  Idempotence of the webhook handler.  Whenever a trusted             *)
(* 'checkout.session.completed' delivery for a stored reservation R is     *)
(* served (the store not failing under it), serving the same delivery      *)
(* again right after leaves every row as the first delivery left it: R is  *)
(* 'paid' with the same payment-intent id, and both deliveries are         *)
(* answered 200.                                                           *)
(***************************************************************************)
C1_WebhookIdempotent ==
    [][LET d == lastReq'.d IN
        (WebhookStep /\ d.fault = "none" /\ Targets(rows, d) # {} /\ Trusted(d)) =>
            LET again == HandleWebhook(rows', d, now', stripeOn', secretOn')
            IN  /\ resp'.code = 200
                /\ again.code = 200
                /\ SameContent(again.rows, rows')
                /\ \A i \in Targets(rows, d) :
                      /\ rows'[i].status = "paid"
                      /\ again.rows[i].status = "paid"
                      /\ again.rows[i].stripe_payment_intent = rows'[i].stripe_payment_intent
    ]_vars

\* a delivery of a completed event with a payment intent for reservation 1
\* has been served and acknowledged, and reservation 1 carries both effects
C1_Witness ==
    /\ lastReq = DeliveryReq(SignedDelivery(Event(COMPLETED, "ok", "1", NULL, "pi_A")))
    /\ resp = Resp(200, "received")
    /\ Len(rows) >= 1
    /\ rows[1].status = "paid"
    /\ rows[1].stripe_payment_intent = "pi_A"

(***************************************************************************)
(* C2  Signature rejection, as claimed: with a webhook secret configured,  *)
(* every delivery whose header does not verify against the raw body is     *)
(* answered 400 and leaves the table as it was.                            *)
(***************************************************************************)
C2_AsClaimed ==
    [][LET d == lastReq'.d IN
        (WebhookStep /\ secretOn /\ BadSignature(d)) =>
            (resp'.code = 400 /\ rows' = rows)
    ]_vars

(***************************************************************************)
(* C2  Signature rejection, amended: with the processor client and a       *)
(* webhook secret configured, every delivery whose header does not verify  *)
(* against the raw body is answered 400 and leaves the table as it was;    *)
(* without the processor client the answer is 500, the table untouched.    *)
(***************************************************************************)
C2_SignatureRejected ==
    [][LET d == lastReq'.d IN
        (WebhookStep /\ secretOn /\ BadSignature(d)) =>
            /\ rows' = rows
            /\ resp'.code = IF stripeOn THEN 400 ELSE 500
    ]_vars

\* a delivery was rejected for its signature while reservations were stored
C2_Witness ==
    /\ secretOn
    /\ stripeOn
    /\ resp = Resp(400, "Webhook Error")
    /\ lastReq.op = COMPLETED
    /\ Len(rows) = 2
    /\ rows[1].status = "pending"

(***************************************************************************)
(* C3  Processor identifiers are never cleared: no step takes a            *)
(* reservation's payment-intent id or session id from a non-empty value    *)
(* to an empty or null one.                                                *)
(***************************************************************************)
C3_IdentifiersNeverCleared ==
    [][\A i \in DOMAIN rows :
        /\ Truthy(rows[i].stripe_payment_intent) => Truthy(rows'[i].stripe_payment_intent)
        /\ Truthy(rows[i].stripe_session_id) => Truthy(rows'[i].stripe_session_id)
    ]_vars

(***************************************************************************)
(* C4  Status domain invariant: the status of every stored reservation is  *)
(* one of pending, pending_online, paid, reserved, failed, canceled.       *)
(***************************************************************************)
C4_StatusInDomain ==
    \A i \in DOMAIN rows : rows[i].status \in StatusDomain

(***************************************************************************)
(* C5  Paid is never reverted automatically: a step that takes a           *)
(* reservation away from 'paid' is an admin update-status call that was    *)
(* authorized and answered ok; no webhook delivery and no step of          *)
(* start-checkout does it.                                                 *)
(***************************************************************************)
C5_PaidNotRevertedAutomatically ==
    [][\A i \in DOMAIN rows :
        (rows[i].status = "paid" /\ rows'[i].status # "paid") =>
            /\ lastReq'.op = "patch"
            /\ lastReq'.id = IdString(i)
            /\ resp' = Resp(200, "ok")
            /\ \E r \in PatchRequests : Patch(r) /\ requireAdmin(r.auth) = 0
    ]_vars

\* start-checkout completed for reservation 1 while it was paid, and it is
\* still paid
C5_Witness ==
    /\ lastReq.op = "checkout_resume"
    /\ lastReq.id = "1"
    /\ Len(rows) >= 1
    /\ rows[1].status = "paid"
    /\ rows[1].stripe_session_id = lastReq.val

(***************************************************************************)
(* C6  Checkout transition, as claimed: when start-checkout completes for  *)
(* a stored reservation whose status is 'pending', the reservation is      *)
(* 'pending_online' afterwards and its session id is the one the           *)
(* processor returned.                                                     *)
(***************************************************************************)
C6_AsClaimed ==
    [][\A r \in {x \in CheckoutRequests : lastReq'.op = "checkout_resume"}, sid \in SessionIds :
        CheckoutResume(r, sid) =>
            \A i \in Matches(rows, r.reservationId) :
                rows[i].status = "pending" =>
                    /\ rows'[i].status = "pending_online"
                    /\ rows'[i].stripe_session_id = sid
    ]_vars

(***************************************************************************)
(* C6  Checkout transition, amended: when start-checkout completes for a   *)
(* stored reservation, its session id is the one the processor returned    *)
(* and its status is left as it was (a 'pending' reservation stays         *)
(* 'pending'); start-checkout never writes the status.                     *)
(***************************************************************************)
C6_CheckoutAttachesSessionOnly ==
    [][\A r \in {x \in CheckoutRequests : lastReq'.op = "checkout_resume"}, sid \in SessionIds :
        CheckoutResume(r, sid) =>
            /\ resp' = Resp(200, "url")
            /\ \A i \in Matches(rows, r.reservationId) :
                  /\ rows'[i].stripe_session_id = sid
                  /\ rows'[i].status = rows[i].status
    ]_vars

\* start-checkout completed for the pending reservation 1, which already had
\* a session from an earlier checkout: it holds the new session id, still pending
C6_Witness ==
    /\ lastReq = Req("checkout_resume", "1", "cs_2")
    /\ resp = Resp(200, "url")
    /\ Len(rows) >= 1
    /\ rows[1].status = "pending"
    /\ rows[1].stripe_session_id = "cs_2"

(***************************************************************************)
(* C7  Admin override supersedes and is supersede-able.  (a) When the      *)
(* last request was an accepted admin update of a reservation to           *)
(* 'reserved' and a trusted checkout-completed event for it is served next *)
(* (its status write not failing), the reservation is 'paid'.  (b) When    *)
(* the last request was an acknowledged checkout-completed event for a     *)
(* stored reservation and the admin then updates it to 'paid', the update  *)
(* is answered ok, the status is 'paid' and the payment-intent id is the   *)
(* one it was.                                                             *)
(***************************************************************************)
C7_AdminOverrideSuperseded ==
    [][/\ LET d == lastReq'.d IN
            ( /\ lastReq.op = "patch" /\ lastReq.val = "reserved" /\ resp = Resp(200, "ok")
              /\ WebhookStep /\ lastReq'.id = lastReq.id /\ Targets(rows, d) # {}
              /\ Trusted(d) /\ d.fault # "status" ) =>
                \A i \in Targets(rows, d) :
                    rows[i].status = "reserved" /\ rows'[i].status = "paid"
       /\ ( /\ lastReq.op = COMPLETED /\ resp = Resp(200, "received")
            /\ Matches(rows, lastReq.id) # {}
            /\ lastReq' = Req("patch", lastReq.id, "paid")
            /\ resp'.code \notin {401, 403} ) =>
                /\ resp' = Resp(200, "ok")
                /\ \A i \in Matches(rows, lastReq.id) :
                      /\ rows'[i].status = "paid"
                      /\ rows'[i].stripe_payment_intent = rows[i].stripe_payment_intent
    ]_vars

\* the admin set reservation 1 to 'reserved', a completed event made it
\* 'paid' with its payment intent, and the admin's update to 'paid' was
\* then accepted
C7_Witness ==
    /\ lastReq = Req("patch", "1", "paid")
    /\ resp = Resp(200, "ok")
    /\ Len(rows) >= 1
    /\ rows[1].status = "paid"
    /\ rows[1].stripe_payment_intent = "pi_B"

(***************************************************************************)
(* C8  Last-write-wins.  In every step and for every stored reservation:   *)
(* an accepted admin update of it leaves it with exactly the status the    *)
(* admin sent; a trusted checkout-completed delivery for it whose status   *)
(* write is made leaves it 'paid'; every other step leaves its status as   *)
(* it was.  So after any interleaving of the two writers the status is     *)
(* the one the last of them wrote, and none is lost or invented.           *)
(***************************************************************************)
\* the status the step into the next state wrote to row i, if it wrote one
StatusWritten(i) ==
    IF lastReq'.op = "patch" /\ lastReq'.id = IdString(i) /\ resp' = Resp(200, "ok")
    THEN {lastReq'.val}
    ELSE IF /\ lastReq'.op = COMPLETED /\ lastReq'.id = IdString(i)
            /\ resp' = Resp(200, "received") /\ lastReq'.d.fault # "status"
    THEN {"paid"}
    ELSE {}

C8_LastWriteWins ==
    [][\A i \in DOMAIN rows :
        IF StatusWritten(i) = {} THEN rows'[i].status = rows[i].status
        ELSE StatusWritten(i) = {rows'[i].status}
    ]_vars

\* the admin overrode a paid reservation after the event, and the admin's
\* status stands
C8_Witness ==
    /\ lastReq = Req("patch", "1", "reserved")
    /\ resp = Resp(200, "ok")
    /\ Len(rows) >= 1
    /\ rows[1].status = "reserved"
    /\ rows[1].stripe_payment_intent = "pi_A"

(***************************************************************************)
(* C9  Atomic application of one event: a checkout-completed delivery      *)
(* leaves the table either as it was or with both of its writes made (the  *)
(* status 'paid' and the event's payment intent); no state shows the       *)
(* status write of an event without its payment-intent write.              *)
(***************************************************************************)
BothWrites(rs, d, t) ==
    attachPaymentIntent(updateReservationStatus(rs, ReservationIdOf(d.body), "paid", t),
                        ReservationIdOf(d.body), OrElse(d.body.pi, ""), t)

C9_EventAppliedAtomically ==
    [][LET d == lastReq'.d IN
        (WebhookStep /\ Targets(rows, d) # {}) =>
            (rows' = rows \/ rows' = BothWrites(rows, d, now))
    ]_vars

(***************************************************************************)
(* C10  Unknown-target no-op: a trusted checkout-completed delivery whose  *)
(* correlation id matches no stored reservation is answered 200, and the   *)
(* table afterwards is the table before: no row added, none changed.       *)
(***************************************************************************)
C10_UnknownTargetNoop ==
    [][LET d == lastReq'.d IN
        ( /\ WebhookStep /\ IsCompleted(d) /\ Truthy(ReservationIdOf(d.body))
          /\ Targets(rows, d) = {} /\ Trusted(d) ) =>
            (resp' = Resp(200, "received") /\ rows' = rows)
    ]_vars

\* a completed event for the id 9, which is not stored, was acknowledged
\* while two reservations were stored
C10_Witness ==
    /\ lastReq = DeliveryReq(SignedDelivery(Event(COMPLETED, "ok", "9", NULL, "pi_A")))
    /\ resp = Resp(200, "received")
    /\ Len(rows) = 2
    /\ rows[1].status = "pending"
    /\ rows[2].stripe_payment_intent = NULL

(***************************************************************************)
(* C11  Webhook acknowledgement policy: every delivery that is trusted     *)
(* (the processor configured, and the signature verified or verification   *)
(* off) is answered 200 {received: true}, whatever its event and however   *)
(* it is formed; an answer other than 200 is given only when the           *)
(* processor is not configured or the signature check fails.               *)
(***************************************************************************)
C11_AcknowledgedWhenTrusted ==
    [][LET d == lastReq'.d IN
        WebhookStep =>
            /\ Trusted(d) => resp' = Resp(200, "received")
            /\ resp'.code # 200 =>
                  (~stripeOn \/ (secretOn /\ ConstructEventThrows(d.body, d.sig)))
    ]_vars

(***************************************************************************)
(* C12  Uncorrelated event is a no-op: a trusted checkout-completed        *)
(* delivery whose event has neither a client reference id nor a metadata   *)
(* reservation id is answered 200 (no error is raised) and leaves the      *)
(* whole table as it was.                                                  *)
(***************************************************************************)
C12_UncorrelatedNoop ==
    [][LET d == lastReq'.d IN
        ( /\ WebhookStep /\ IsCompleted(d)
          /\ ~Truthy(d.body.cref) /\ ~Truthy(d.body.meta) /\ Trusted(d) ) =>
            (resp' = Resp(200, "received") /\ rows' = rows)
    ]_vars

\* a completed event naming no reservation was acknowledged while two
\* reservations were stored, both left pending and without a payment intent
C12_Witness ==
    /\ lastReq = DeliveryReq(SignedDelivery(Event(COMPLETED, "ok", NULL, NULL, "pi_A")))
    /\ resp = Resp(200, "received")
    /\ Len(rows) = 2
    /\ \A i \in DOMAIN rows :
          rows[i].status = "pending" /\ rows[i].stripe_payment_intent = NULL

(***************************************************************************)
(* C13  Amount normalization branching: for every price P >= 0 the amount  *)
(* start-checkout sends to the processor is round(P) when the currency is  *)
(* 'jpy' or 'lkr' in any letter case, and round(P * 100) for every other   *)
(* currency.                                                               *)
(***************************************************************************)
C13_ZeroDecimalBranching ==
    \A s \in inflight :
        (s.op = "checkout" /\ s.price.t = "num" /\ s.price.m >= 0) =>
            s.call.amount = IF ToLowerCase(s.call.currency) \in {"jpy", "lkr"}
                            THEN MathRound(s.price)
                            ELSE MathRound(Times(s.price, 100))

(***************************************************************************)
(* C14  One normalization on every path: for an LKR price P the amount of  *)
(* a start-checkout call in currency 'lkr' is the amount the saved-card    *)
(* charge computes for amountLKR = P.                                      *)
(***************************************************************************)
C14_CheckoutAmountIsChargeAmount ==
    \A s \in inflight :
        ( /\ s.op = "checkout" /\ ToLowerCase(s.call.currency) = "lkr"
          /\ s.price.t = "num" /\ s.price.m > 0 ) =>
            s.call.amount = ChargeCall(ChargeReq("salon01", "BOOK_001", s.price)).amount

(***************************************************************************)
(* C15  Invalid amounts are rejected: start-checkout never issues the      *)
(* session-creation call for a price that is negative or not a finite      *)
(* number (a text that is no number, an infinite number).                  *)
(***************************************************************************)
\* the price read as a number is negative, NaN or infinite
InvalidPrice(p) ==
    \/ Number(p).t \in {"nan", "inf"} /\ p # Undefined
    \/ Number(p).t = "num" /\ Number(p).m < 0

C15_NoCallForInvalidAmount ==
    \A s \in inflight : s.op = "checkout" => ~InvalidPrice(s.price)

(***************************************************************************)
(* C16  Checkout field validation, as claimed: a start-checkout call       *)
(* without a reservationId or without an item is answered with a 4xx       *)
(* error, issues no call to the processor and leaves the table as it was.  *)
(***************************************************************************)
C16_AsClaimed ==
    [][(lastReq'.op = "checkout" /\ (~Truthy(lastReq'.id) \/ ~Truthy(lastReq'.val))) =>
            /\ resp'.code \in 400..499
            /\ inflight' = inflight
            /\ rows' = rows
    ]_vars

(***************************************************************************)
(* C16  Checkout field validation, amended: a start-checkout call without  *)
(* a reservationId or without an item issues no call to the processor and  *)
(* leaves the table as it was; it is answered 400 when the processor       *)
(* client is configured and 500 'Stripe not configured' when it is not     *)
(* (that check comes first).                                               *)
(***************************************************************************)
C16_MissingFieldRejected ==
    [][(lastReq'.op = "checkout" /\ (~Truthy(lastReq'.id) \/ ~Truthy(lastReq'.val))) =>
            /\ resp' = IF stripeOn
                       THEN Resp(400, "reservationId and item required")
                       ELSE Resp(500, "Stripe not configured")
            /\ inflight' = inflight
            /\ rows' = rows
    ]_vars

\* a checkout of the stored reservation 1 without an item was answered 400,
\* with no call under way
C16_Witness ==
    /\ lastReq = Req("checkout", "1", NULL)
    /\ resp = Resp(400, "reservationId and item required")
    /\ inflight = {}
    /\ Len(rows) >= 1
    /\ rows[1].stripe_session_id = NULL

(***************************************************************************)
(* C17  Checkout side-effect ordering: a reservation's session id changes  *)
(* only in the step in which a session-creation call that was under way    *)
(* returns its session, and to that session's id; the step in which the    *)
(* call fails answers 5xx and leaves the table (session ids and statuses)  *)
(* as it was; the redirect URL is answered only by a step that has         *)
(* persisted the session id.                                               *)
(***************************************************************************)
C17_PersistAfterCallReturns ==
    [][/\ \A i \in DOMAIN rows :
            rows'[i].stripe_session_id # rows[i].stripe_session_id =>
                /\ lastReq'.op = "checkout_resume"
                /\ \E s \in inflight \ inflight' : s.op = "checkout" /\ s.id = lastReq'.id
                /\ rows'[i].stripe_session_id = lastReq'.val
       /\ lastReq'.op = "checkout_fail" =>
            /\ resp'.code \in 500..599
            /\ rows' = rows
       /\ resp'.body = "url" =>
            /\ lastReq'.op = "checkout_resume"
            /\ \A i \in DOMAIN rows :
                  IdString(i) = lastReq'.id => rows'[i].stripe_session_id = lastReq'.val
    ]_vars

\* the call of a checkout of reservation 1 failed: 500, and the reservation
\* has no session id
C17_Witness ==
    /\ lastReq = Req("checkout_fail", "1", NULL)
    /\ resp = Resp(500, "Failed to create checkout")
    /\ Len(rows) >= 1
    /\ rows[1].stripe_session_id = NULL
    /\ rows[1].status = "pending"

(***************************************************************************)
(* C18  Dual correlation round-trip: every session-creation call of a      *)
(* start-checkout for reservation id R carries R as the client reference   *)
(* id and as the metadata reservation id; so each of the two completed     *)
(* events of that session in which one of the fields is dropped resolves   *)
(* to R, and a trusted delivery of it sets the stored reservation R to     *)
(* 'paid' and leaves every other row as it is.                             *)
(***************************************************************************)
\* the completed events of a session with one correlation field dropped
DroppedFieldEvents(call) ==
    { Event(COMPLETED, "ok", call.client_reference_id, NULL, "pi_A"),
      Event(COMPLETED, "ok", NULL, call.reservation_id, "pi_A") }

C18_DualCorrelation ==
    \A s \in inflight :
        s.op = "checkout" =>
            /\ s.call.client_reference_id = StringOf(s.id)
            /\ s.call.reservation_id = StringOf(s.id)
            /\ \A ev \in DroppedFieldEvents(s.call) :
                  LET out == HandleWebhook(rows, SignedDelivery(ev), now, TRUE, secretOn)
                  IN  /\ ReservationIdOf(ev) = StringOf(s.id)
                      /\ out.code = 200
                      /\ Len(out.rows) = Len(rows)
                      /\ \A i \in DOMAIN rows :
                            IF IdString(i) = StringOf(s.id)
                            THEN out.rows[i].status = "paid"
                            ELSE out.rows[i] = rows[i]

\* the session-creation call of a checkout of reservation 1 is under way
\* while reservations 1 and 2 are stored and pending
C18_Witness ==
    /\ inflight = {SuspendedCheckout(CheckoutReq("1", "Basic Treatment", Num(15000), NULL))}
    /\ Len(rows) = 2
    /\ rows[1].status = "pending"
    /\ rows[2].status = "pending"

(***************************************************************************)
(* C19  List authorization: list-reservations without a bearer token is    *)
(* answered 401 and with a bearer token other than the admin token 403,    *)
(* both without any record; with the admin token it is answered 200 with   *)
(* records of the requested status only (all of them when the listing has  *)
(* no search text and fits the page).  The table is never changed.         *)
(***************************************************************************)
C19_ListAuthorization ==
    [][\A r \in {x \in ListRequests : lastReq'.op = "list" /\ x.status = lastReq'.val} :
        List(r) =>
            /\ rows' = rows
            /\ ~StartsWith(r.auth, Bearer) => resp' = Resp(401, "No token")
            /\ (StartsWith(r.auth, Bearer) /\ Slice(r.auth, 7) # ADMIN_TOKEN) =>
                  resp' = Resp(403, "Forbidden")
            /\ (r.auth = Bearer \o ADMIN_TOKEN) =>
                  /\ resp'.code = 200
                  /\ Truthy(r.status) => \A row \in resp'.data : row.status = r.status
                  /\ (Truthy(r.status) /\ ~Truthy(r.q) /\ r.limit >= Len(rows) /\ r.offset = 0) =>
                        resp'.data = {rows[i] : i \in {j \in DOMAIN rows : rows[j].status = r.status}}
    ]_vars

\* the admin listed the paid reservations while one reservation was paid and
\* the other pending, and got the paid one alone
C19_Witness ==
    /\ lastReq = Req("list", NULL, "paid")
    /\ resp.code = 200
    /\ Len(rows) = 2
    /\ rows[1].status = "paid"
    /\ rows[2].status = "pending"
    /\ resp.data = {rows[1]}

(***************************************************************************)
(* C20  Rejected admin updates change nothing: an update-status call       *)
(* without a bearer token is answered 401, with a wrong token 403, with    *)
(* the admin token but no new status 400, and with the admin token and a   *)
(* status for an id that no reservation has 404; in each case the table    *)
(* is left as it was.                                                      *)
(***************************************************************************)
C20_RejectedUpdatesWriteNothing ==
    [][\A r \in {x \in PatchRequests : lastReq' = Req("patch", x.id, x.status)} :
        Patch(r) =>
            /\ ~StartsWith(r.auth, Bearer) =>
                  (resp' = Resp(401, "No token") /\ rows' = rows)
            /\ (StartsWith(r.auth, Bearer) /\ Slice(r.auth, 7) # ADMIN_TOKEN) =>
                  (resp' = Resp(403, "Forbidden") /\ rows' = rows)
            /\ (r.auth = Bearer \o ADMIN_TOKEN /\ ~Truthy(r.status)) =>
                  (resp' = Resp(400, "status required") /\ rows' = rows)
            /\ ( /\ r.auth = Bearer \o ADMIN_TOKEN /\ Truthy(r.status) /\ Bindable(r.status)
                 /\ \A i \in DOMAIN rows : IdString(i) # r.id ) =>
                  (resp' = Resp(404, "Not found") /\ rows' = rows)
    ]_vars

\* an update of the paid reservation 1 under a wrong token was answered 403
\* and the reservation is still paid
C20_Witness ==
    /\ lastReq = Req("patch", "1", "reserved")
    /\ resp = Resp(403, "Forbidden")
    /\ Len(rows) >= 1
    /\ rows[1].status = "paid"
    /\ rows[1].stripe_payment_intent = "pi_A"

(***************************************************************************)
(* C21  Unconditional admin overwrite: an update-status call with the      *)
(* admin token and a status text for a stored reservation is answered ok   *)
(* and leaves that reservation with exactly the requested status, from     *)
(* every status it had, 'paid' included; its session id, payment-intent id *)
(* and every other column but the update time, and every other             *)
(* reservation, are as they were.                                          *)
(***************************************************************************)
C21_AdminOverwrite ==
    [][\A r \in {x \in PatchRequests : lastReq' = Req("patch", x.id, x.status)} :
        ( /\ Patch(r)
          /\ r.auth = Bearer \o ADMIN_TOKEN /\ Truthy(r.status) /\ Bindable(r.status)
          /\ \E i \in DOMAIN rows : IdString(i) = r.id ) =>
            /\ resp' = Resp(200, "ok")
            /\ Len(rows') = Len(rows)
            /\ \A i \in DOMAIN rows :
                  IF IdString(i) = r.id
                  THEN Content(rows'[i]) = Content([rows[i] EXCEPT !.status = r.status])
                  ELSE rows'[i] = rows[i]
    ]_vars

\* the admin set reservation 1, paid by an event and holding a session id,
\* to 'reserved': it is 'reserved' with both identifiers, and the paid
\* reservation 2 is untouched
C21_Witness ==
    /\ lastReq = Req("patch", "1", "reserved")
    /\ resp = Resp(200, "ok")
    /\ Len(rows) = 2
    /\ rows[1].status = "reserved"
    /\ rows[1].stripe_payment_intent = "pi_B"
    /\ rows[1].stripe_session_id = "cs_1"
    /\ rows[2].status = "paid"

(***************************************************************************)
(* C22  Unconfigured-secret mode, as claimed: with no webhook secret       *)
(* configured, a well-formed checkout-completed event for a stored         *)
(* reservation, delivered under any signature header or none, is applied:  *)
(* the delivery is answered 200 and the reservation is 'paid' with the     *)
(* event's payment-intent id.                                              *)
(***************************************************************************)
C22_AsClaimed ==
    [][LET d == lastReq'.d IN
        ( /\ WebhookStep /\ ~secretOn /\ IsCompleted(d) /\ Targets(rows, d) # {}
          /\ d.fault = "none" /\ Truthy(d.body.pi) /\ Bindable(d.body.pi) ) =>
            /\ resp' = Resp(200, "received")
            /\ \A i \in Targets(rows, d) :
                  /\ rows'[i].status = "paid"
                  /\ rows'[i].stripe_payment_intent = d.body.pi
    ]_vars

(***************************************************************************)
(* C22  Unconfigured-secret mode, amended: with the processor client       *)
(* configured and no webhook secret, a well-formed checkout-completed      *)
(* event for a stored reservation, delivered under any signature header    *)
(* or none, is applied (answered 200, the reservation 'paid' with the      *)
(* event's payment-intent id); without the processor client the delivery   *)
(* is answered 500 and nothing is applied.                                 *)
(***************************************************************************)
C22_UnverifiedEventApplied ==
    [][LET d == lastReq'.d IN
        ( /\ WebhookStep /\ ~secretOn /\ IsCompleted(d) /\ Targets(rows, d) # {}
          /\ d.fault = "none" /\ Truthy(d.body.pi) /\ Bindable(d.body.pi) ) =>
            IF stripeOn
            THEN /\ resp' = Resp(200, "received")
                 /\ \A i \in Targets(rows, d) :
                       /\ rows'[i].status = "paid"
                       /\ rows'[i].stripe_payment_intent = d.body.pi
            ELSE /\ resp' = Resp(500, "Stripe not configured")
                 /\ rows' = rows
    ]_vars

\* with no secret configured, a completed event for reservation 2 sent under
\* the header of another event was applied
C22_Witness ==
    /\ ~secretOn
    /\ stripeOn
    /\ lastReq.op = COMPLETED
    /\ lastReq.d.body = Event(COMPLETED, "ok", "2", NULL, "pi_B")
    /\ lastReq.d.sig = Sign(WebhookSecret, GenuineEvent, TRUE)
    /\ resp = Resp(200, "received")
    /\ Len(rows) = 2
    /\ rows[2].status = "paid"
    /\ rows[2].stripe_payment_intent = "pi_B"

(***************************************************************************)
(* C23  End-to-end reconciliation: for a reservation created with price    *)
(* 5000 whose checkout (5000 in 'lkr') has stored a session id, when a     *)
(* trusted checkout-completed event naming it and carrying a payment       *)
(* intent has been acknowledged and the next request is get-reservation    *)
(* for it, the answer is the reservation with status 'paid' and that       *)
(* non-empty payment-intent id.                                            *)
(***************************************************************************)
C23_EndToEnd ==
    [][( /\ lastReq.op = COMPLETED /\ resp = Resp(200, "received")
         /\ Trusted(lastReq.d) /\ lastReq.d.fault = "none"
         /\ Truthy(lastReq.val) /\ Bindable(lastReq.val)
         /\ lastReq' = Req("get", lastReq.id, NULL)
         /\ \E i \in DOMAIN rows :
               /\ IdString(i) = lastReq.id
               /\ rows[i].price = 5000
               /\ Truthy(rows[i].stripe_session_id) ) =>
            /\ resp'.code = 200
            /\ resp'.data # {}
            /\ \A row \in resp'.data :
                  /\ row.status = "paid"
                  /\ Truthy(row.stripe_payment_intent)
                  /\ row.stripe_payment_intent = lastReq.val
                  /\ row.price = 5000
    ]_vars

\* with verification on, get-reservation answered reservation 1 as created
\* (price 5000), checked out (session cs_1) and paid by the event (pi_A) at
\* a later time than it was created
C23_Witness ==
    /\ stripeOn
    /\ secretOn
    /\ lastReq = Req("get", "1", NULL)
    /\ resp.code = 200
    /\ Len(rows) >= 1
    /\ resp.data = {rows[1]}
    /\ rows[1].price = 5000
    /\ rows[1].stripe_session_id = "cs_1"
    /\ rows[1].status = "paid"
    /\ rows[1].stripe_payment_intent = "pi_A"
    /\ rows[1].updated_at > rows[1].created_at

(***************************************************************************)
(* C24  Reservation identity and persistence: a create-reservation call    *)
(* that is accepted adds one row and answers its id, which no row stored   *)
(* before has; no other step adds a row; no step removes a row or puts     *)
(* another reservation under an id already handed out (the columns written *)
(* at creation stay as they are).  So the stored ids only grow.            *)
(***************************************************************************)
C24_IdsOnlyGrow ==
    [][/\ Len(rows') >= Len(rows)
       /\ \A i \in DOMAIN rows :
             /\ rows'[i].salon_id = rows[i].salon_id
             /\ rows'[i].item = rows[i].item
             /\ rows'[i].price = rows[i].price
             /\ rows'[i].contact_name = rows[i].contact_name
             /\ rows'[i].created_at = rows[i].created_at
       /\ IF lastReq'.op = "create" /\ resp'.code = 200
          THEN /\ Len(rows') = Len(rows) + 1
               /\ resp'.body = IdString(Len(rows'))
               /\ \A i \in DOMAIN rows : IdString(i) # resp'.body
          ELSE Len(rows') = Len(rows)
    ]_vars

\* a second reservation was created and answered id 2 while reservation 1,
\* paid in the meantime, is still stored under id 1
C24_Witness ==
    /\ lastReq.op = "create"
    /\ resp = Resp(200, "2")
    /\ Len(rows) = 2
    /\ rows[1].status = "paid"
    /\ rows[1].stripe_payment_intent = "pi_A"
    /\ rows[2].status = "pending"

(***************************************************************************)
(* C25  Only 'checkout.session.completed' mutates: a trusted delivery      *)
(* whose event has any other type, or none, leaves the whole table as it   *)
(* was and is answered 200; the handler never fails on it.                 *)
(***************************************************************************)
C25_OtherTypesAcknowledged ==
    [][LET d == lastReq'.d IN
        (WebhookStep /\ Trusted(d) /\ d.body.type # COMPLETED) =>
            (rows' = rows /\ resp' = Resp(200, "received"))
    ]_vars

(***************************************************************************)
(* C26  Checkout without an existing reservation: with the processor       *)
(* configured, a start-checkout call with an item and a reservationId that *)
(* no stored reservation has is not rejected: the session-creation call    *)
(* naming that id is issued, and when it returns the redirect URL is       *)
(* answered; neither step changes the table (no row is added and no        *)
(* session id is stored).                                                  *)
(***************************************************************************)
C26_CheckoutOfUnknownReservation ==
    [][( /\ lastReq'.op \in {"checkout", "checkout_resume"}
         /\ Truthy(lastReq'.id) /\ Bindable(lastReq'.id)
         /\ \A i \in DOMAIN rows : IdString(i) # lastReq'.id ) =>
            /\ rows' = rows
            /\ (lastReq'.op = "checkout" /\ stripeOn /\ Truthy(lastReq'.val)) =>
                  /\ resp' = NoResp
                  /\ \E s \in inflight' :
                        /\ s.op = "checkout" /\ s.id = lastReq'.id
                        /\ s.call.api = "checkout.sessions.create"
                        /\ s.call.client_reference_id = lastReq'.id
            /\ lastReq'.op = "checkout_resume" => resp' = Resp(200, "url")
    ]_vars

\* a checkout of the id 9 was answered with the redirect URL while two
\* reservations were stored, neither holding a session id
C26_Witness ==
    /\ lastReq = Req("checkout_resume", "9", "cs_1")
    /\ resp = Resp(200, "url")
    /\ Len(rows) = 2
    /\ \A i \in DOMAIN rows : rows[i].stripe_session_id = NULL

(***************************************************************************)
(* C27  Store-failure policy.  When a store write throws while a trusted   *)
(* checkout-completed event is applied, the handler swallows the failure   *)
(* and the delivery is acknowledged with 200 {received: true}; and when    *)
(* the failure was a passing one (the store was busy), delivering the same *)
(* event again without failure leaves every reservation with the content   *)
(* that a single failure-free delivery would have left.                    *)
(***************************************************************************)
\* a store write of the delivery d throws
WriteFails(d) ==
    /\ IsCompleted(d) /\ Truthy(ReservationIdOf(d.body))
    /\ \/ d.fault # "none"
       \/ ~Bindable(ReservationIdOf(d.body))
       \/ ~Bindable(OrElse(d.body.pi, ""))

\* the same event delivered while the store works
Redelivery(d) == [d EXCEPT !.fault = "none"]

C27_StoreFailureSwallowed ==
    [][LET d == lastReq'.d IN
        (WebhookStep /\ Trusted(d) /\ WriteFails(d)) =>
            /\ resp' = Resp(200, "received")
            /\ d.fault # "none" =>
                SameContent(
                    HandleWebhook(rows', Redelivery(d), now, stripeOn, secretOn).rows,
                    HandleWebhook(rows, Redelivery(d), now, stripeOn, secretOn).rows)
    ]_vars

\* the payment-intent write of a delivery for reservation 1 failed: the
\* delivery was acknowledged and the reservation is paid without the intent
C27_Witness ==
    /\ lastReq.op = COMPLETED
    /\ lastReq.d.fault = "pi"
    /\ resp = Resp(200, "received")
    /\ Targets(rows, lastReq.d) # {}
    /\ \A i \in Targets(rows, lastReq.d) :
          rows[i].status = "paid" /\ rows[i].stripe_payment_intent = NULL

(***************************************************************************)
(* C28  All-or-nothing event application: when the handler has             *)
(* acknowledged a checkout-completed event for an existing reservation,    *)
(* that reservation shows either both effects of the event (status 'paid'  *)
(* and the event's payment-intent id) or neither (status and payment-      *)
(* intent id as before the delivery); a failure of the second write does   *)
(* not leave it 'paid' without the event's payment-intent id.              *)
(***************************************************************************)
C28_AllOrNothing ==
    [][LET d == lastReq'.d IN
        (lastReq'.op = COMPLETED /\ resp' = Resp(200, "received")) =>
            \A i \in Targets(rows, d) :
                \/ /\ rows'[i].status = "paid"
                   /\ rows'[i].stripe_payment_intent = OrElse(d.body.pi, "")
                \/ /\ rows'[i].status = rows[i].status
                   /\ rows'[i].stripe_payment_intent = rows[i].stripe_payment_intent
    ]_vars

(***************************************************************************)
(* C29  Correlation precedence.  A trusted checkout-completed event with   *)
(* a non-empty client reference id A updates reservation A only: every     *)
(* other reservation, the one its metadata id B names included, is left    *)
(* as it was.  The metadata id decides only when the client reference id   *)
(* is absent or empty, and then reservation B is the one updated.          *)
(***************************************************************************)
\* the step into the next state changed no row but the one with the id rid,
\* and, its writes not failing, left that row 'paid'
UpdatesOnly(rid, d) ==
    /\ Len(rows') = Len(rows)
    /\ \A i \in DOMAIN rows :
          IF IdString(i) = rid
          THEN (d.fault = "none" /\ Bindable(OrElse(d.body.pi, ""))) =>
                  /\ rows'[i].status = "paid"
                  /\ rows'[i].stripe_payment_intent = OrElse(d.body.pi, "")
          ELSE rows'[i] = rows[i]

C29_ClientReferenceFirst ==
    [][LET d == lastReq'.d IN
        (WebhookStep /\ Trusted(d) /\ IsCompleted(d)) =>
            /\ Truthy(d.body.cref) => UpdatesOnly(d.body.cref, d)
            /\ (~Truthy(d.body.cref) /\ Truthy(d.body.meta)) => UpdatesOnly(d.body.meta, d)
    ]_vars

\* an event with client reference id 1 and metadata id 2 was applied:
\* reservation 1 is paid, reservation 2 is untouched
C29_Witness ==
    /\ lastReq = DeliveryReq(SignedDelivery(Event(COMPLETED, "ok", "1", "2", "pi_A")))
    /\ resp = Resp(200, "received")
    /\ Len(rows) = 2
    /\ rows[1].status = "paid" /\ rows[1].stripe_payment_intent = "pi_A"
    /\ rows[2].status # "paid" /\ rows[2].stripe_payment_intent = NULL

(***************************************************************************)
(* C30  Webhook frame.  A delivery of a checkout-completed event that      *)
(* correlates to reservation R changes of R nothing but its status, its    *)
(* payment-intent id and its last-update timestamp: R's session id, price, *)
(* item, salon, contact fields and creation time stay as they were; every  *)
(* field of every other reservation stays as it was, and no reservation    *)
(* is added or removed.                                                    *)
(***************************************************************************)
\* the row with the three fields the webhook may write taken from old
WithWebhookFieldsOf(row, old) ==
    [row EXCEPT !.status = old.status,
                !.stripe_payment_intent = old.stripe_payment_intent,
                !.updated_at = old.updated_at]

C30_WebhookFrame ==
    [][LET d == lastReq'.d IN
        (lastReq'.op = COMPLETED /\ now' = now) =>
            /\ Len(rows') = Len(rows)
            /\ \A i \in DOMAIN rows :
                  IF i \in Targets(rows, d)
                  THEN WithWebhookFieldsOf(rows'[i], rows[i]) = rows[i]
                  ELSE rows'[i] = rows[i]
    ]_vars

\* reservation 1, created with a contact, given a session id by checkout and
\* later paid by the event, next to a second reservation the event left alone
C30_Witness ==
    /\ lastReq.op = COMPLETED /\ lastReq.id = "1"
    /\ resp = Resp(200, "received")
    /\ Len(rows) = 2
    /\ rows[1].status = "paid" /\ rows[1].stripe_payment_intent = "pi_A"
    /\ rows[1].contact_name = "Nimal"
    /\ rows[1].stripe_session_id # NULL
    /\ rows[1].updated_at > rows[1].created_at
    /\ rows[2].status = "pending" /\ rows[2].updated_at = rows[2].created_at

====
